---- MODULE Spec2Model ----
(***************************************************************************)
(* Model of package booklist (kbalk/gobooklist): the catalog search of     *)
(* src/booklist/catalog.go.  One process runs PublicationSearch calls one  *)
(* after the other; every HTTP exchange of a call is one step, the         *)
(* catalog's answer being chosen by the environment.                       *)
(***************************************************************************)
EXTENDS Integers, Sequences, FiniteSets, TLC

(***************************************************************************)
(* Bounds of the model.                                                    *)
(***************************************************************************)
\* largest totalHits the catalog reports
MaxTotal == 2
\* largest number of resources in one page of the catalog's answer
MaxPage == 2
\* largest number of fetch requests followed in one year bucket
MaxFetches == 2
\* number of PublicationSearch calls the process makes
MaxSearches == 2
\* largest page handed to applyLocalFilters on its own
MaxFilterLen == 2
\* number of makeTimestamp calls followed on their own
MaxTokens == 4
\* the clock is read in half milliseconds, up to this many
MaxClock == 3
\* largest number of authors in a config file handed to ValidateConfig
MaxAuthors == 2
\* bits timestampIncrement is kept in where a search may run for ever
IncrementBits == 3
\* largest number of arguments after the flags on a command line
MaxArgs == 2
\* largest number of flags on a command line
MaxFlags == 2

(***************************************************************************)
(* Program constants.                                                      *)
(***************************************************************************)
maxHitsPerPage == 30
StatusOK == 200
\* int64(time.Millisecond) / int64(time.Nanosecond)
NanosPerMilli == 1000000

\* yearFilter is time.Now().UTC().Format("2006"), fixed at process start.
yearFilter == "2026"
\* for _, year := range []string{"unknown", yearFilter}
Years == <<"unknown", yearFilter>>

(***************************************************************************)
(* Values.                                                                 *)
(***************************************************************************)
\* A nil slice.  The code never builds an empty non-nil slice (append is
\* only called with one element), so nil and the empty list coincide.
Nil == <<>>

\* A JSON value of a resource map, as seen through the type assertion
\* .(string): a missing key, a JSON number or a JSON string.
Absent == [t |-> "absent", v |-> ""]
Number7 == [t |-> "number", v |-> "7"]
Str(s) == [t |-> "string", v |-> s]

GoodURL == "https://junk.com/"
\* url.Parse rejects this one ("missing protocol scheme")
ColonURL == ":"
QueryAuthor == "Grafton, Sue"
QueryMedia == "Book"

\* type CatalogInfo struct (Log left out: it carries no state)
CatalogInfo == [URL : {"", GoodURL, ColonURL}, Author : {"", QueryAuthor}, Media : {"", QueryMedia}]

\* type PublicationInfo struct
PublicationInfo(media, publication) == [Media |-> media, Publication |-> publication]

\* type resourceInfo map[string]interface{}: the three keys the code reads
resourceInfo(a, f, t) == [shortAuthor |-> a, format |-> f, shortTitle |-> t]

\* The resources the catalog answers with in a search.
CatalogResources ==
    { resourceInfo(Str(QueryAuthor), Str("Book"), Str("X")),
      resourceInfo(Str(QueryAuthor), Absent, Str("Y")),
      resourceInfo(Str("grafton, sue"), Str("Book"), Str("X")) }

\* Every resource over the field values below, for the filter on its own.
AuthorValues == {Absent, Number7, Str(QueryAuthor), Str("grafton, sue"), Str("Grafton")}
FormatValues == {Absent, Number7, Str("Book")}
TitleValues == {Absent, Number7, Str("X")}
AllResources == { resourceInfo(a, f, t) : a \in AuthorValues, f \in FormatValues, t \in TitleValues }

\* Sequences over S of length at most n.
SeqUpTo(S, n) == UNION { [1..k -> S] : k \in 0..n }

(***************************************************************************)
(* strings.ToLower on the strings of the model: each string that has an    *)
(* upper-case letter with its lower-case form; any other string is its own *)
(* lower-case form.                                                        *)
(***************************************************************************)
LowerPairs ==
    { <<"Book", "book">>, <<"BOOK", "book">>,
      <<"Electronic Resource", "electronic resource">>,
      <<"ELECTRONIC RESOURCE", "electronic resource">>,
      <<"eBook", "ebook">>, <<"EBOOK", "ebook">>,
      <<"eAudioBook", "eaudiobook">>, <<"EAUDIOBOOK", "eaudiobook">>,
      <<"Book on CD", "book on cd">>, <<"BOOK ON CD", "book on cd">>,
      <<"Large Print", "large print">>, <<"LARGE PRINT", "large print">>,
      <<"Music CD", "music cd">>, <<"MUSIC CD", "music cd">>,
      <<"DVD", "dvd">>, <<"Dvd", "dvd">>,
      <<"Blu-Ray", "blu-ray">>, <<"BLU-RAY", "blu-ray">>,
      <<"Nonsense", "nonsense">>,
      <<"Grafton, Sue", "grafton, sue">>, <<"Grafton", "grafton">> }

ToLower(s) ==
    IF \E p \in LowerPairs : p[1] = s
    THEN (CHOOSE p \in LowerPairs : p[1] = s)[2]
    ELSE s

(***************************************************************************)
(* applyLocalFilters (catalog.go 198-227).                                 *)
(***************************************************************************)
\* v, ok = x.(string)
IsString(x) == x.t = "string"

\* applyLocalFilters that puts each kept publication in front of the list
RECURSIVE applyLocalFilters_prepend(_, _, _)
applyLocalFilters_prepend(c, pubs, filteredResults) ==
    IF pubs = <<>> THEN filteredResults
    ELSE LET publication == Head(pubs)
             format == IF IsString(publication.format) THEN publication.format.v ELSE "Unknown"
             title == IF IsString(publication.shortTitle) THEN publication.shortTitle.v ELSE "Unknown"
         IN  IF IsString(publication.shortAuthor) /\ c.Author = publication.shortAuthor.v
             THEN applyLocalFilters_prepend(c, Tail(pubs),
                      <<PublicationInfo(format, title)>> \o filteredResults)
             ELSE applyLocalFilters_prepend(c, Tail(pubs), filteredResults)

\* applyLocalFilters that rejects a publication only when it has an author
\* and the author differs
RECURSIVE applyLocalFilters_keepAuthorless(_, _, _)
applyLocalFilters_keepAuthorless(c, pubs, filteredResults) ==
    IF pubs = <<>> THEN filteredResults
    ELSE LET publication == Head(pubs)
             format == IF IsString(publication.format) THEN publication.format.v ELSE "Unknown"
             title == IF IsString(publication.shortTitle) THEN publication.shortTitle.v ELSE "Unknown"
         IN  IF IsString(publication.shortAuthor) /\ c.Author # publication.shortAuthor.v
             THEN applyLocalFilters_keepAuthorless(c, Tail(pubs), filteredResults)
             ELSE applyLocalFilters_keepAuthorless(c, Tail(pubs),
                      Append(filteredResults, PublicationInfo(format, title)))

\* applyLocalFilters that skips a publication without format or title
RECURSIVE applyLocalFilters_dropIncomplete(_, _, _)
applyLocalFilters_dropIncomplete(c, pubs, filteredResults) ==
    IF pubs = <<>> THEN filteredResults
    ELSE LET publication == Head(pubs)
         IN  IF /\ IsString(publication.shortAuthor)
                /\ IsString(publication.format)
                /\ IsString(publication.shortTitle)
                /\ c.Author = publication.shortAuthor.v
             THEN applyLocalFilters_dropIncomplete(c, Tail(pubs),
                      Append(filteredResults,
                             PublicationInfo(publication.format.v, publication.shortTitle.v)))
             ELSE applyLocalFilters_dropIncomplete(c, Tail(pubs), filteredResults)

\* applyLocalFilters that compares the authors without regard to case
RECURSIVE applyLocalFilters_foldCase(_, _, _)
applyLocalFilters_foldCase(c, pubs, filteredResults) ==
    IF pubs = <<>> THEN filteredResults
    ELSE LET publication == Head(pubs)
             format == IF IsString(publication.format) THEN publication.format.v ELSE "Unknown"
             title == IF IsString(publication.shortTitle) THEN publication.shortTitle.v ELSE "Unknown"
         IN  IF /\ IsString(publication.shortAuthor)
                /\ ToLower(c.Author) = ToLower(publication.shortAuthor.v)
             THEN applyLocalFilters_foldCase(c, Tail(pubs),
                      Append(filteredResults, PublicationInfo(format, title)))
             ELSE applyLocalFilters_foldCase(c, Tail(pubs), filteredResults)

RECURSIVE applyLocalFilters(_, _, _)
applyLocalFilters(c, pubs, filteredResults) ==
    IF pubs = <<>> THEN filteredResults
    ELSE LET publication == Head(pubs)
             format == IF IsString(publication.format) THEN publication.format.v ELSE "Unknown"
             title == IF IsString(publication.shortTitle) THEN publication.shortTitle.v ELSE "Unknown"
         IN  IF ~IsString(publication.shortAuthor)
             THEN applyLocalFilters(c, Tail(pubs), filteredResults)
             ELSE IF c.Author = publication.shortAuthor.v
                  THEN applyLocalFilters(c, Tail(pubs),
                           Append(filteredResults, PublicationInfo(format, title)))
                  ELSE applyLocalFilters(c, Tail(pubs), filteredResults)

(***************************************************************************)
(* The catalog's answers and issueRequest (catalog.go 230-293).            *)
(***************************************************************************)
\* Bodies of an answer of search/count: not JSON of the shape, the JSON
\* value null, or an object whose members may be missing.
NoBody == [json |-> "invalid"]
NullBody == [json |-> "null"]
CountBodies ==
    {NoBody, NullBody} \cup
    { [json |-> "object", success |-> s, hasTotalHits |-> TRUE, totalHits |-> n] :
          s \in {"absent", "true", "false"}, n \in -1..MaxTotal } \cup
    { [json |-> "object", success |-> s, hasTotalHits |-> FALSE, totalHits |-> 0] :
          s \in {"absent", "true", "false"} }
\* Bodies of an answer of search.
SearchBodies ==
    {NoBody, NullBody, [json |-> "object", hasResources |-> FALSE, resources |-> <<>>]} \cup
    { [json |-> "object", hasResources |-> TRUE, resources |-> p] :
          p \in SeqUpTo(CatalogResources, MaxPage) }

NetError == [kind |-> "neterr"]
HTTP(status, body) == [kind |-> "http", status |-> status, body |-> body]
BadStatuses == {204, 404}

\* What client.Do can come back with for a request of c to endpt.  With an
\* empty URL the request has no scheme and client.Do fails.
Responses(c, endpt) ==
    IF c.URL # GoodURL THEN {NetError}
    ELSE {NetError} \cup { HTTP(s, NoBody) : s \in BadStatuses }
         \cup { HTTP(StatusOK, b) : b \in IF endpt = "search/count" THEN CountBodies ELSE SearchBodies }

\* url.Parse(c.URL + endpt)
urlParseFails(c) == c.URL = ColonURL

\* issueRequestErr that lets a body it cannot decode pass
issueRequestErr_noDecodeErr(resp) ==
    IF resp.kind = "neterr" THEN "transport"
    ELSE IF resp.status # StatusOK THEN "http"
    ELSE "nil"

\* issueRequestErr that takes every status from 200 to 299 for a success
issueRequestErr_any2xx(resp) ==
    IF resp.kind = "neterr" THEN "transport"
    ELSE IF resp.status \notin 200..299 THEN "http"
    ELSE IF resp.body.json = "invalid" THEN "decode"
    ELSE "nil"

\* err of issueRequest once client.Do has returned resp
issueRequestErr(resp) ==
    IF resp.kind = "neterr" THEN "transport"
    ELSE IF resp.status # StatusOK THEN "http"
    ELSE IF resp.body.json = "invalid" THEN "decode"
    ELSE "nil"

\* decodeCount with the success flag taken for granted
decodeCount_ignoreSuccess(body) ==
    IF body.json = "null" THEN [isNil |-> TRUE, Success |-> FALSE, Count |-> 0]
    ELSE IF body.json = "object"
    THEN [isNil |-> FALSE,
          Success |-> TRUE,
          Count |-> IF body.hasTotalHits THEN body.totalHits ELSE 0]
    ELSE [isNil |-> FALSE, Success |-> FALSE, Count |-> 0]

\* json.NewDecoder(resp.Body).Decode(&results) for results *hitResults:
\* null sets the pointer to nil, a missing member leaves the zero value.
decodeCount(body) ==
    IF body.json = "null" THEN [isNil |-> TRUE, Success |-> FALSE, Count |-> 0]
    ELSE IF body.json = "object"
    THEN [isNil |-> FALSE,
          Success |-> (body.success = "true"),
          Count |-> IF body.hasTotalHits THEN body.totalHits ELSE 0]
    ELSE [isNil |-> FALSE, Success |-> FALSE, Count |-> 0]

\* the same for results *searchResults
decodeSearch(body) ==
    IF body.json = "null" THEN [isNil |-> TRUE, Resources |-> Nil]
    ELSE IF body.json = "object"
    THEN [isNil |-> FALSE,
          Resources |-> IF body.hasResources THEN body.resources ELSE Nil]
    ELSE [isNil |-> FALSE, Resources |-> Nil]

\* missingInfo that forgets the media
missingInfo_authorOnly(ci) == ci.Author = ""

\* if c.Author == "" || c.Media == ""
missingInfo(ci) == ci.Author = "" \/ ci.Media = ""

\* loopContinues that stops one resource short
loopContinues_short(count, total) == count + 1 < total

\* for currentCount < totalCount
loopContinues(count, total) == count < total

\* afterCount without the continue, the loop entered on count <= total
afterCount_noSkip(total) ==
    IF 0 <= total THEN "fetch" ELSE "afterloop"

\* Where the body of the range loop goes once totalCount is known: the
\* continue of line 117, the fetch loop, or past a loop that never runs.
afterCount(total) ==
    IF total = 0 THEN "continue"
    ELSE IF loopContinues(0, total) THEN "fetch"
    ELSE "afterloop"

(***************************************************************************)
(* State.                                                                  *)
(***************************************************************************)
VARIABLES
    timestampIncrement, \* package variable of catalog.go
    c,                  \* receiver of the running PublicationSearch call
    pc,                 \* "start", "count", "fetch", "done", "panic"; "filter", "filtered"
    year,               \* index in Years of the range loop
    totalCount,         \* local of PublicationSearch
    currentCount,       \* local of PublicationSearch
    filteredPubs,       \* local of PublicationSearch
    retPubs,            \* first return value of PublicationSearch
    err,                \* second return value, "nil" for nil
    requests,           \* the requests sent by this call, with their answers
    nSearches,          \* calls started so far
    pubs,               \* argument of applyLocalFilters called on its own
    filteredBefore,     \* *filteredResults when that call was made
    tokens,             \* the clock readings and results of makeTimestamp
    configIn,           \* the config file handed to main or ValidateConfig
    config,             \* the Config returned by ValidateConfig
    configErr,          \* the error returned by ValidateConfig, "nil" for nil
    mainPc,             \* where main is; "idle" when main is not modelled
    authorIdx,          \* index of the range loop of printSearchResults
    exitStatus,         \* status the process exited with, -1 while it runs
    logged,             \* the errors handed to log.Error
    searchErrs,         \* the errors of the searches main has made, in order
    args                \* the command line main was started with

\* the state of main and of the token log
procVars == <<tokens, configIn, config, configErr, mainPc, authorIdx,
              exitStatus, logged, searchErrs, args>>

vars == <<timestampIncrement, c, pc, year, totalCount, currentCount,
          filteredPubs, retPubs, err, requests, nSearches, pubs, filteredBefore,
          tokens, configIn, config, configErr, mainPc, authorIdx,
          exitStatus, logged, searchErrs, args>>

\* var config Config
ZeroConfig == [URL |-> "", Media |-> "", Authors |-> <<>>]
\* a config file that is not looked at
NoInput == [kind |-> "none"]

\* no command line: main is not run
NoArgs == [main |-> "cmd/booklist", flags |-> <<>>, nArg |-> 0]

\* main is not running and makeTimestamp has not been called
ProcIdle ==
    /\ args = NoArgs
    /\ tokens = <<>>
    /\ configIn = NoInput
    /\ config = ZeroConfig
    /\ configErr = "nil"
    /\ mainPc = "idle"
    /\ authorIdx = 0
    /\ exitStatus = -1
    /\ logged = <<>>
    /\ searchErrs = <<>>

\* The fetch requests of bucket y sent so far.
FetchesOf(y) == SelectSeq(requests, LAMBDA r : r.endpt = "search" /\ r.year = y)
\* The count requests of bucket y sent so far.
CountsOf(y) == SelectSeq(requests, LAMBDA r : r.endpt = "search/count" /\ r.year = y)

(***************************************************************************)
(* PublicationSearch (catalog.go 86-147).                                  *)
(***************************************************************************)
\* filters of the body of the range loop for year y
facetFilters(ci, y) ==
    <<[facetDisplay |-> y, facetValue |-> y, facetName |-> "Year"],
      [facetDisplay |-> ci.Media, facetValue |-> ci.Media, facetName |-> "Format"]>>

\* searchFilter with the index moved on by what was retrieved
searchFilter_offset(ci, filters) ==
    [AddToHistory |-> TRUE, DbCodes |-> Nil, HitsPerPage |-> maxHitsPerPage,
     SortCriteria |-> "NewlyAdded", StartIndex |-> currentCount, TargetAudience |-> "",
     FacetFilters |-> filters, SearchTerm |-> ci.Author]

\* search := searchFilter{...} of issueRequest, the POST's JSON data; the
\* fields the literal leaves out have their zero values.
searchFilter(ci, filters) ==
    [AddToHistory |-> TRUE, DbCodes |-> Nil, HitsPerPage |-> maxHitsPerPage,
     SortCriteria |-> "NewlyAdded", StartIndex |-> 0, TargetAudience |-> "",
     FacetFilters |-> filters, SearchTerm |-> ci.Author]

Init ==
    /\ timestampIncrement = 1
    /\ c \in CatalogInfo
    /\ pc = "start"
    /\ year = 1
    /\ totalCount = 0
    /\ currentCount = 0
    /\ filteredPubs = Nil
    /\ retPubs = Nil
    /\ err = "nil"
    /\ requests = <<>>
    /\ nSearches = 1
    /\ pubs = <<>>
    /\ filteredBefore = Nil
    /\ ProcIdle

\* return list, e
Return(list, e) ==
    /\ pc' = "done"
    /\ retPubs' = list
    /\ err' = e

\* End of the body of the range loop with the list acc: the next year, or
\* return filteredPubs, nil.
Continue(acc) ==
    IF year < Len(Years)
    THEN /\ year' = year + 1
         /\ pc' = "count"
         /\ UNCHANGED <<retPubs, err>>
    ELSE /\ Return(acc, "nil")
         /\ UNCHANGED year

\* AfterLoop without the comparison of the two counts
AfterLoop_noCheck(count, total, acc) == Continue(acc)

\* AfterLoop that hands back the list along with the error
AfterLoop_partial(count, total, acc) ==
    IF count > total
    THEN Return(acc, "mismatch") /\ UNCHANGED year
    ELSE Continue(acc)

\* The lines after the fetch loop (138-144) with count retrieved resources.
AfterLoop(count, total, acc) ==
    IF count > total
    THEN Return(Nil, "mismatch") /\ UNCHANGED year
    ELSE Continue(acc)

\* Entry of PublicationSearch: the check of the arguments.
Call ==
    /\ pc = "start"
    /\ IF missingInfo(c)
       THEN Return(Nil, "validation")
       ELSE /\ pc' = "count"
            /\ UNCHANGED <<retPubs, err>>
    /\ UNCHANGED <<timestampIncrement, c, year, totalCount, currentCount,
                   filteredPubs, requests, nSearches, pubs, filteredBefore>>
    /\ UNCHANGED procVars

\* CountRequest that moves timestampIncrement on only for a request that
\* succeeded
CountRequest_noTokenOnError ==
    /\ pc = "count"
    /\ IF urlParseFails(c)
       THEN /\ Return(Nil, "urlparse")
            /\ UNCHANGED <<timestampIncrement, requests, year, totalCount, currentCount>>
       ELSE \E resp \in Responses(c, "search/count") :
            LET e == issueRequestErr(resp)
                results == decodeCount(resp.body)
            IN  /\ timestampIncrement' = IF e # "nil" THEN timestampIncrement ELSE timestampIncrement + 1
                /\ requests' = Append(requests,
                       [endpt |-> "search/count", year |-> Years[year], resp |-> resp,
                        payload |-> searchFilter(c, facetFilters(c, Years[year]))])
                /\ IF e # "nil"
                   THEN Return(Nil, e) /\ UNCHANGED <<year, totalCount, currentCount>>
                   ELSE IF results.isNil
                   THEN pc' = "panic" /\ UNCHANGED <<retPubs, err, year, totalCount, currentCount>>
                   ELSE IF ~results.Success
                   THEN Return(Nil, "countfail") /\ UNCHANGED <<year, totalCount, currentCount>>
                   ELSE /\ totalCount' = results.Count
                        /\ IF afterCount(results.Count) = "continue"
                           THEN Continue(filteredPubs) /\ UNCHANGED currentCount
                           ELSE /\ currentCount' = 0
                                /\ IF afterCount(results.Count) = "fetch"
                                   THEN pc' = "fetch" /\ UNCHANGED <<retPubs, err, year>>
                                   ELSE AfterLoop(0, results.Count, filteredPubs)
    /\ UNCHANGED <<c, filteredPubs, nSearches, pubs, filteredBefore>>
    /\ UNCHANGED procVars

\* totalCount, err := c.publicationsCount(filters) and what follows it up
\* to the next request.
CountRequest ==
    /\ pc = "count"
    /\ IF urlParseFails(c)
       THEN /\ Return(Nil, "urlparse")
            /\ UNCHANGED <<timestampIncrement, requests, year, totalCount, currentCount>>
       ELSE \E resp \in Responses(c, "search/count") :
            LET e == issueRequestErr(resp)
                results == decodeCount(resp.body)
            IN  /\ timestampIncrement' = timestampIncrement + 1
                /\ requests' = Append(requests,
                       [endpt |-> "search/count", year |-> Years[year], resp |-> resp,
                        payload |-> searchFilter(c, facetFilters(c, Years[year]))])
                /\ IF e # "nil"
                   THEN Return(Nil, e) /\ UNCHANGED <<year, totalCount, currentCount>>
                   ELSE IF results.isNil
                   THEN pc' = "panic" /\ UNCHANGED <<retPubs, err, year, totalCount, currentCount>>
                   ELSE IF ~results.Success
                   THEN Return(Nil, "countfail") /\ UNCHANGED <<year, totalCount, currentCount>>
                   ELSE /\ totalCount' = results.Count
                        /\ IF afterCount(results.Count) = "continue"
                           THEN Continue(filteredPubs) /\ UNCHANGED currentCount
                           ELSE /\ currentCount' = 0
                                /\ IF afterCount(results.Count) = "fetch"
                                   THEN pc' = "fetch" /\ UNCHANGED <<retPubs, err, year>>
                                   ELSE AfterLoop(0, results.Count, filteredPubs)
    /\ UNCHANGED <<c, filteredPubs, nSearches, pubs, filteredBefore>>
    /\ UNCHANGED procVars

\* FetchRequest with currentCount moved on by the publications kept
FetchRequest_countKept ==
    /\ pc = "fetch"
    /\ Len(FetchesOf(Years[year])) < MaxFetches
    /\ IF urlParseFails(c)
       THEN /\ Return(Nil, "urlparse")
            /\ UNCHANGED <<timestampIncrement, requests, year, currentCount, filteredPubs>>
       ELSE \E resp \in Responses(c, "search") :
            LET e == issueRequestErr(resp)
                results == decodeSearch(resp.body)
                acc == applyLocalFilters(c, results.Resources, filteredPubs)
                count == currentCount + (Len(acc) - Len(filteredPubs))
            IN  /\ timestampIncrement' = timestampIncrement + 1
                /\ requests' = Append(requests,
                       [endpt |-> "search", year |-> Years[year], resp |-> resp,
                        payload |-> searchFilter(c, facetFilters(c, Years[year]))])
                /\ IF e # "nil"
                   THEN Return(Nil, e) /\ UNCHANGED <<year, currentCount, filteredPubs>>
                   ELSE IF results.isNil
                   THEN pc' = "panic" /\ UNCHANGED <<retPubs, err, year, currentCount, filteredPubs>>
                   ELSE /\ currentCount' = count
                        /\ filteredPubs' = acc
                        /\ IF loopContinues(count, totalCount)
                           THEN UNCHANGED <<pc, retPubs, err, year>>
                           ELSE AfterLoop(count, totalCount, acc)
    /\ UNCHANGED <<c, totalCount, nSearches, pubs, filteredBefore>>
    /\ UNCHANGED procVars

\* pubs, err := c.publications(filters), the rest of the loop body and,
\* when the loop ends, the lines after it.
FetchRequest ==
    /\ pc = "fetch"
    /\ Len(FetchesOf(Years[year])) < MaxFetches
    /\ IF urlParseFails(c)
       THEN /\ Return(Nil, "urlparse")
            /\ UNCHANGED <<timestampIncrement, requests, year, currentCount, filteredPubs>>
       ELSE \E resp \in Responses(c, "search") :
            LET e == issueRequestErr(resp)
                results == decodeSearch(resp.body)
                count == currentCount + Len(results.Resources)
                acc == applyLocalFilters(c, results.Resources, filteredPubs)
            IN  /\ timestampIncrement' = timestampIncrement + 1
                /\ requests' = Append(requests,
                       [endpt |-> "search", year |-> Years[year], resp |-> resp,
                        payload |-> searchFilter(c, facetFilters(c, Years[year]))])
                /\ IF e # "nil"
                   THEN Return(Nil, e) /\ UNCHANGED <<year, currentCount, filteredPubs>>
                   ELSE IF results.isNil
                   THEN pc' = "panic" /\ UNCHANGED <<retPubs, err, year, currentCount, filteredPubs>>
                   ELSE /\ currentCount' = count
                        /\ filteredPubs' = acc
                        /\ IF loopContinues(count, totalCount)
                           THEN UNCHANGED <<pc, retPubs, err, year>>
                           ELSE AfterLoop(count, totalCount, acc)
    /\ UNCHANGED <<c, totalCount, nSearches, pubs, filteredBefore>>
    /\ UNCHANGED procVars

\* The caller makes its next call, on any CatalogInfo; the locals of the
\* call are fresh and timestampIncrement is the package's.
NewSearch ==
    /\ pc = "done"
    /\ nSearches < MaxSearches
    /\ nSearches' = nSearches + 1
    /\ c' \in CatalogInfo
    /\ pc' = "start"
    /\ year' = 1
    /\ totalCount' = 0
    /\ currentCount' = 0
    /\ filteredPubs' = Nil
    /\ retPubs' = Nil
    /\ err' = "nil"
    /\ requests' = <<>>
    /\ UNCHANGED <<timestampIncrement, pubs, filteredBefore>>
    /\ UNCHANGED procVars

Next == Call \/ CountRequest \/ FetchRequest \/ NewSearch

Spec == Init /\ [][Next]_vars

(***************************************************************************)
(* applyLocalFilters called on its own, on any page over AllResources and  *)
(* with a list that is empty or already holds a publication.               *)
(***************************************************************************)
FilterAuthors == {QueryAuthor, "Grafton"}

InitFilter ==
    /\ timestampIncrement = 1
    /\ c \in [URL : {GoodURL}, Author : FilterAuthors, Media : {QueryMedia}]
    /\ pc = "filter"
    /\ year = 1
    /\ totalCount = 0
    /\ currentCount = 0
    /\ filteredBefore \in {Nil, <<PublicationInfo("Book", "Z")>>}
    /\ filteredPubs = filteredBefore
    /\ retPubs = Nil
    /\ err = "nil"
    /\ requests = <<>>
    /\ nSearches = 1
    /\ pubs \in SeqUpTo(AllResources, MaxFilterLen)
    /\ ProcIdle

\* c.applyLocalFilters(pubs, &filteredPubs)
ApplyLocalFilters ==
    /\ pc = "filter"
    /\ filteredPubs' = applyLocalFilters(c, pubs, filteredPubs)
    /\ pc' = "filtered"
    /\ UNCHANGED <<timestampIncrement, c, year, totalCount, currentCount, retPubs,
                   err, requests, nSearches, pubs, filteredBefore>>
    /\ UNCHANGED procVars

NextFilter == ApplyLocalFilters

SpecFilter == InitFilter /\ [][NextFilter]_vars

(***************************************************************************)
(* makeTimestamp (catalog.go 306-311) called on its own.  The clock is     *)
(* the wall clock (time.Now().UTC().UnixNano()), which the system may set  *)
(* back between two readings; a reading is in nanoseconds, counted from a  *)
(* millisecond boundary shortly before the process started.  The token is  *)
(* kept as the number that fmt.Sprintf("%d") prints.                       *)
(***************************************************************************)
ClockReadings == { k * 500000 : k \in 0..MaxClock }

\* timestamp + timestampIncrement, incr being the incremented counter
makeTimestamp(utcTime, incr) == (utcTime \div NanosPerMilli) + incr

\* the search of a call that never starts
searchVars == <<c, pc, year, totalCount, currentCount, filteredPubs, retPubs,
                err, requests, nSearches, pubs, filteredBefore>>

InitToken ==
    /\ timestampIncrement = 1
    /\ c = [URL |-> GoodURL, Author |-> QueryAuthor, Media |-> QueryMedia]
    /\ pc = "token"
    /\ year = 1
    /\ totalCount = 0
    /\ currentCount = 0
    /\ filteredPubs = Nil
    /\ retPubs = Nil
    /\ err = "nil"
    /\ requests = <<>>
    /\ nSearches = 1
    /\ pubs = <<>>
    /\ filteredBefore = Nil
    /\ ProcIdle

\* one call of makeTimestamp, the clock reading utcTime
MakeTimestamp ==
    /\ pc = "token"
    /\ Len(tokens) < MaxTokens
    /\ \E utcTime \in ClockReadings :
          /\ timestampIncrement' = timestampIncrement + 1
          /\ tokens' = Append(tokens,
                 [utcTime |-> utcTime,
                  token |-> makeTimestamp(utcTime, timestampIncrement + 1)])
    /\ UNCHANGED searchVars
    /\ UNCHANGED <<configIn, config, configErr, mainPc, authorIdx, exitStatus,
                   logged, searchErrs, args>>

NextToken == MakeTimestamp

SpecToken == InitToken /\ [][NextToken]_vars

(***************************************************************************)
(* ValidateConfig (config.go 187-234) called on its own.                   *)
(***************************************************************************)
\* var MediaTypes = map[string]string{...}
MediaTypes ==
    ("book" :> "Book") @@ ("electronic resource" :> "Electronic Resource") @@
    ("ebook" :> "eBook") @@ ("eaudiobook" :> "eAudioBook") @@
    ("book on cd" :> "Book on CD") @@ ("large print" :> "Large Print") @@
    ("music cd" :> "Music CD") @@ ("dvd" :> "DVD") @@ ("blu-ray" :> "Blu-Ray")

\* MediaTypes[k], "" for a key the map does not have
mediaLookup(k) == IF k \in DOMAIN MediaTypes THEN MediaTypes[k] ELSE ""

\* func (f mediaFormatChecker) IsFormat(input string) bool
IsFormat(input) == input = "" \/ ToLower(input) \in DOMAIN MediaTypes

NoSlashURL == "https://junk.com"
\* "format": "uri" of the schema: the URL parses and has a scheme
uriFormat(u) == u \in {GoodURL, NoSlashURL}

\* A config file: no bytes, bytes that are not YAML, or a YAML document
\* with its catalog-url, media-type and authors; authorsNull when the
\* authors tag has no list (Authors stays nil).
EmptyInput == [kind |-> "empty"]
BadYamlInput == [kind |-> "badyaml"]
YamlInput(url, media, authors, authorsNull) ==
    [kind |-> "yaml", URL |-> url, Media |-> media, Authors |-> authors,
     authorsNull |-> authorsNull]
\* type AuthorInfo struct
AuthorInfo(first, last, media) == [Firstname |-> first, Lastname |-> last, Media |-> media]

\* convertMediaType that leaves the authors as they are
convertMediaType_configOnly(cfg) ==
    [cfg EXCEPT !.Media = IF @ # "" THEN mediaLookup(ToLower(@)) ELSE @]

\* func convertMediaType(config *Config)
convertMediaType(cfg) ==
    [cfg EXCEPT
        !.Media = IF @ # "" THEN mediaLookup(ToLower(@)) ELSE @,
        !.Authors = [i \in DOMAIN cfg.Authors |->
                        [cfg.Authors[i] EXCEPT
                            !.Media = IF ToLower(@) # "" THEN mediaLookup(ToLower(@)) ELSE @]]]

\* schemaValid with no format on the Media of an author
schemaValid_noAuthorMedia(in) ==
    /\ uriFormat(in.URL)
    /\ IsFormat(in.Media)
    /\ ~in.authorsNull
    /\ \A i \in DOMAIN in.Authors :
          in.Authors[i].Firstname # "" /\ in.Authors[i].Lastname # ""

\* result.Valid() for the schema of config.go 93-115
schemaValid(in) ==
    /\ uriFormat(in.URL)
    /\ IsFormat(in.Media)
    /\ ~in.authorsNull
    /\ \A i \in DOMAIN in.Authors :
          /\ in.Authors[i].Firstname # ""
          /\ in.Authors[i].Lastname # ""
          /\ IsFormat(in.Authors[i].Media)

\* func ValidateConfig(in []byte) (Config, error)
ValidateConfig(in) ==
    IF in.kind = "empty" THEN [config |-> ZeroConfig, err |-> "empty"]
    ELSE IF in.kind = "badyaml" THEN [config |-> ZeroConfig, err |-> "yaml"]
    ELSE LET cfg == [URL |-> in.URL, Media |-> in.Media, Authors |-> in.Authors]
         IN  IF ~schemaValid(in)
             THEN [config |-> cfg, err |-> "schema"]
             ELSE [config |-> convertMediaType(cfg), err |-> "nil"]

\* The media types written in config files: none, the names of the table
\* in lower case, as the table spells them and some in upper case, and a
\* name the table does not have.
MediaInputs ==
    {""} \cup DOMAIN MediaTypes \cup { MediaTypes[k] : k \in DOMAIN MediaTypes }
    \cup {"BOOK", "EBOOK", "nonsense", "Nonsense"}
AuthorInputs ==
    { AuthorInfo("Sue", "Grafton", md) : md \in MediaInputs }
    \cup {AuthorInfo("", "Grafton", "")}
ConfigInputs ==
    {EmptyInput, BadYamlInput}
    \cup { YamlInput(u, md, <<>>, TRUE) : u \in {GoodURL}, md \in {"", "Book"} }
    \cup { YamlInput(u, md, as, FALSE) :
              u \in {"", NoSlashURL, GoodURL}, md \in MediaInputs,
              as \in SeqUpTo(AuthorInputs, MaxAuthors) }

InitConfig ==
    /\ timestampIncrement = 1
    /\ c = [URL |-> GoodURL, Author |-> QueryAuthor, Media |-> QueryMedia]
    /\ pc = "config"
    /\ year = 1
    /\ totalCount = 0
    /\ currentCount = 0
    /\ filteredPubs = Nil
    /\ retPubs = Nil
    /\ err = "nil"
    /\ requests = <<>>
    /\ nSearches = 1
    /\ pubs = <<>>
    /\ filteredBefore = Nil
    /\ tokens = <<>>
    /\ configIn \in ConfigInputs
    /\ config = ZeroConfig
    /\ configErr = "nil"
    /\ mainPc = "idle"
    /\ authorIdx = 0
    /\ exitStatus = -1
    /\ logged = <<>>
    /\ searchErrs = <<>>
    /\ args = NoArgs

\* config, ok := ValidateConfig(in)
CallValidateConfig ==
    /\ pc = "config"
    /\ pc' = "validated"
    /\ config' = ValidateConfig(configIn).config
    /\ configErr' = ValidateConfig(configIn).err
    /\ UNCHANGED <<timestampIncrement, c, year, totalCount, currentCount, filteredPubs,
                   retPubs, err, requests, nSearches, pubs, filteredBefore>>
    /\ UNCHANGED <<tokens, configIn, mainPc, authorIdx, exitStatus, logged, searchErrs, args>>

NextConfig == CallValidateConfig

SpecConfig == InitConfig /\ [][NextConfig]_vars

(***************************************************************************)
(* PublicationSearch with every request answered and no limit on the       *)
(* number of requests: the steps are those of CountRequest and             *)
(* FetchRequest, without the log of the requests, and timestampIncrement   *)
(* wraps round as a signed integer of IncrementBits bits does (an int64 in *)
(* the code).                                                              *)
(***************************************************************************)
\* n as a two's complement integer of IncrementBits bits
wrap(n) == ((n + 2^(IncrementBits - 1)) % 2^IncrementBits) - 2^(IncrementBits - 1)

LiveCountRequest ==
    /\ pc = "count"
    /\ IF urlParseFails(c)
       THEN /\ Return(Nil, "urlparse")
            /\ UNCHANGED <<timestampIncrement, year, totalCount, currentCount>>
       ELSE \E resp \in Responses(c, "search/count") :
            LET e == issueRequestErr(resp)
                results == decodeCount(resp.body)
            IN  /\ timestampIncrement' = wrap(timestampIncrement + 1)
                /\ IF e # "nil"
                   THEN Return(Nil, e) /\ UNCHANGED <<year, totalCount, currentCount>>
                   ELSE IF results.isNil
                   THEN pc' = "panic" /\ UNCHANGED <<retPubs, err, year, totalCount, currentCount>>
                   ELSE IF ~results.Success
                   THEN Return(Nil, "countfail") /\ UNCHANGED <<year, totalCount, currentCount>>
                   ELSE /\ totalCount' = results.Count
                        /\ IF afterCount(results.Count) = "continue"
                           THEN Continue(filteredPubs) /\ UNCHANGED currentCount
                           ELSE /\ currentCount' = 0
                                /\ IF afterCount(results.Count) = "fetch"
                                   THEN pc' = "fetch" /\ UNCHANGED <<retPubs, err, year>>
                                   ELSE AfterLoop(0, results.Count, filteredPubs)
    /\ UNCHANGED <<c, filteredPubs, requests, nSearches, pubs, filteredBefore>>
    /\ UNCHANGED procVars

LiveFetchRequest ==
    /\ pc = "fetch"
    /\ IF urlParseFails(c)
       THEN /\ Return(Nil, "urlparse")
            /\ UNCHANGED <<timestampIncrement, year, currentCount, filteredPubs>>
       ELSE \E resp \in Responses(c, "search") :
            LET e == issueRequestErr(resp)
                results == decodeSearch(resp.body)
                count == currentCount + Len(results.Resources)
                acc == applyLocalFilters(c, results.Resources, filteredPubs)
            IN  /\ timestampIncrement' = wrap(timestampIncrement + 1)
                /\ IF e # "nil"
                   THEN Return(Nil, e) /\ UNCHANGED <<year, currentCount, filteredPubs>>
                   ELSE IF results.isNil
                   THEN pc' = "panic" /\ UNCHANGED <<retPubs, err, year, currentCount, filteredPubs>>
                   ELSE /\ currentCount' = count
                        /\ filteredPubs' = acc
                        /\ IF loopContinues(count, totalCount)
                           THEN UNCHANGED <<pc, retPubs, err, year>>
                           ELSE AfterLoop(count, totalCount, acc)
    /\ UNCHANGED <<c, totalCount, requests, nSearches, pubs, filteredBefore>>
    /\ UNCHANGED procVars

NextLive == Call \/ LiveCountRequest \/ LiveFetchRequest

\* Every request returns, so a search that has a step to take takes it.
SpecLive == Init /\ [][NextLive]_vars /\ WF_vars(NextLive)

(***************************************************************************)
(* main and printSearchResults (the main that searches): the config is     *)
(* read and validated, then PublicationSearch runs for one author after    *)
(* the other, with the steps Call, CountRequest and FetchRequest above.    *)
(***************************************************************************)
\* const DefaultMediaType = "Book"
DefaultMediaType == "Book"

\* defaultMedia as the first lines of printSearchResults leave it
defaultMedia(cfg) == IF cfg.Media = "" THEN cfg.Media ELSE DefaultMediaType

\* media of the loop body for authorInfo
searchMedia(cfg, authorInfo) ==
    IF authorInfo.Media # "" THEN authorInfo.Media ELSE defaultMedia(cfg)

\* fmt.Sprintf("%s, %s", authorInfo.Lastname, authorInfo.Firstname)
authorName(authorInfo) ==
    IF authorInfo.Lastname = "Grafton" /\ authorInfo.Firstname = "Sue"
    THEN "Grafton, Sue"
    ELSE "Unknown, Unknown"

\* The config files main is run on: an empty one, one with a media type
\* the table does not have, and valid ones with one or two authors, with
\* and without media types of their own.
MainInputs ==
    {EmptyInput,
     YamlInput(GoodURL, "nonsense", <<AuthorInfo("Sue", "Grafton", "")>>, FALSE),
     YamlInput(GoodURL, "", <<AuthorInfo("Sue", "Grafton", "")>>, FALSE),
     YamlInput(NoSlashURL, "book", <<AuthorInfo("Sue", "Grafton", "ebook")>>, FALSE),
     YamlInput(GoodURL, "dvd",
               <<AuthorInfo("Sue", "Grafton", ""), AuthorInfo("Sue", "Grafton", "book")>>, FALSE)}

\* The two mains of the repository: cmd/booklist/booklist.go, which has
\* the call of the search commented out, and the one that searches.
Mains == {"cmd/booklist", "part_002"}

\* A flag of a command line as flag.Parse takes it: -debug (also
\* -debug=true), -h or -help, a flag that is not defined (as -d), or
\* -debug with a value that is no boolean.
FlagKinds == {"debug", "help", "undefined", "badvalue"}

\* The command lines: the main that is run, the flags before the first
\* argument, in order, and the number of arguments that follow them.
CommandLines == [main : Mains, flags : SeqUpTo(FlagKinds, MaxFlags), nArg : 0..MaxArgs]

\* flag.Parse(): the flags are taken one after the other and the first
\* that is not a good -debug ends the parsing; "ok" when there is none.
RECURSIVE parseFlags(_)
parseFlags(flags) ==
    IF flags = <<>> THEN "ok"
    ELSE IF Head(flags) = "debug" THEN parseFlags(Tail(flags))
    ELSE Head(flags)

\* os.Exit of flag.Parse after the usage was asked for: 0 since Go 1.15,
\* 2 before
HelpExitStatuses == {0, 2}
\* os.Exit(2) of flag.Parse after a flag it cannot parse
FlagErrorExit == 2

InitMain ==
    /\ timestampIncrement = 1
    /\ c = [URL |-> "", Author |-> "", Media |-> ""]
    /\ pc = "idle"
    /\ year = 1
    /\ totalCount = 0
    /\ currentCount = 0
    /\ filteredPubs = Nil
    /\ retPubs = Nil
    /\ err = "nil"
    /\ requests = <<>>
    /\ nSearches = 1
    /\ pubs = <<>>
    /\ filteredBefore = Nil
    /\ tokens = <<>>
    /\ configIn = NoInput
    /\ config = ZeroConfig
    /\ configErr = "nil"
    /\ mainPc = "args"
    /\ authorIdx = 0
    /\ exitStatus = -1
    /\ logged = <<>>
    /\ searchErrs = <<>>
    /\ args \in CommandLines

\* log.Error(e); os.Exit(1)
ExitOnError(e) ==
    /\ logged' = Append(logged, e)
    /\ exitStatus' = 1
    /\ mainPc' = "exited"

\* flag.Parse() and the check of flag.NArg(): -h and a flag that is not
\* defined end the process inside flag.Parse, a wrong number of arguments
\* ends it with 1 after a message on stderr; the logger is not yet made.
MainParseArgs ==
    /\ mainPc = "args"
    /\ IF parseFlags(args.flags) = "help"
       THEN exitStatus' \in HelpExitStatuses /\ mainPc' = "exited"
       ELSE IF parseFlags(args.flags) \in {"undefined", "badvalue"}
       THEN exitStatus' = FlagErrorExit /\ mainPc' = "exited"
       ELSE IF args.nArg # 1
       THEN exitStatus' = 1 /\ mainPc' = "exited"
       ELSE mainPc' = "read" /\ UNCHANGED exitStatus
    /\ UNCHANGED searchVars
    /\ UNCHANGED <<timestampIncrement, tokens, configIn, config, configErr, authorIdx,
                   logged, searchErrs, args>>

\* exit status of a Go program that ends in a panic
PanicExit == 2

\* configBytes, ok := booklist.ReadConfig(configFileName): ReadConfig
\* returns an error (no such file, a directory, a file that cannot be
\* read), panics on the nil FileInfo of an os.Stat that failed for another
\* reason than a missing file, or returns the bytes of the file.
MainReadConfig ==
    /\ mainPc = "read"
    /\ \/ ExitOnError("read") /\ UNCHANGED configIn
       \/ /\ exitStatus' = PanicExit
          /\ mainPc' = "exited"
          /\ UNCHANGED <<configIn, logged>>
       \/ /\ configIn' \in MainInputs
          /\ mainPc' = "validate"
          /\ UNCHANGED <<logged, exitStatus>>
    /\ UNCHANGED searchVars
    /\ UNCHANGED <<timestampIncrement, tokens, config, configErr, authorIdx, searchErrs, args>>

\* config, ok := booklist.ValidateConfig(configBytes) and, in the main of
\* cmd/booklist, the os.Exit(0) that follows it, the call of the search
\* being commented out; the other main goes on to printSearchResults.
MainValidateConfig ==
    /\ mainPc = "validate"
    /\ config' = ValidateConfig(configIn).config
    /\ configErr' = ValidateConfig(configIn).err
    /\ IF ValidateConfig(configIn).err # "nil"
       THEN ExitOnError(ValidateConfig(configIn).err) /\ UNCHANGED authorIdx
       ELSE IF args.main = "cmd/booklist"
       THEN /\ exitStatus' = 0
            /\ mainPc' = "exited"
            /\ UNCHANGED <<logged, authorIdx>>
       ELSE /\ mainPc' = "loop"
            /\ authorIdx' = 1
            /\ UNCHANGED <<logged, exitStatus>>
    /\ UNCHANGED searchVars
    /\ UNCHANGED <<timestampIncrement, tokens, configIn, searchErrs, args>>

\* for _, authorInfo := range config.Authors: the next author's
\* CatalogInfo is built and PublicationSearch called on it, or, after the
\* last author, printSearchResults returns nil and main exits with 0.
NextAuthor ==
    /\ mainPc = "loop"
    /\ IF authorIdx > Len(config.Authors)
       THEN /\ exitStatus' = 0
            /\ mainPc' = "exited"
            /\ UNCHANGED searchVars
       ELSE /\ c' = [URL |-> config.URL,
                     Author |-> authorName(config.Authors[authorIdx]),
                     Media |-> searchMedia(config, config.Authors[authorIdx])]
            /\ pc' = "start"
            /\ year' = 1
            /\ totalCount' = 0
            /\ currentCount' = 0
            /\ filteredPubs' = Nil
            /\ retPubs' = Nil
            /\ err' = "nil"
            /\ requests' = <<>>
            /\ mainPc' = "searching"
            /\ UNCHANGED <<exitStatus, nSearches, pubs, filteredBefore>>
    /\ UNCHANGED <<timestampIncrement, tokens, configIn, config, configErr, authorIdx,
                   logged, searchErrs, args>>

\* SearchReturned that goes on to the next author whatever err is
SearchReturned_ignoreErr ==
    /\ mainPc = "searching"
    /\ pc = "done"
    /\ searchErrs' = Append(searchErrs, err)
    /\ authorIdx' = authorIdx + 1
    /\ mainPc' = "loop"
    /\ UNCHANGED <<logged, exitStatus>>
    /\ UNCHANGED searchVars
    /\ UNCHANGED <<timestampIncrement, tokens, configIn, config, configErr, args>>

\* results, err := c.PublicationSearch() has returned: with an error
\* printSearchResults returns it and main logs it and exits with 1,
\* otherwise the results are printed and the loop goes on.
SearchReturned ==
    /\ mainPc = "searching"
    /\ pc = "done"
    /\ searchErrs' = Append(searchErrs, err)
    /\ IF err # "nil"
       THEN ExitOnError(err) /\ UNCHANGED authorIdx
       ELSE /\ authorIdx' = authorIdx + 1
            /\ mainPc' = "loop"
            /\ UNCHANGED <<logged, exitStatus>>
    /\ UNCHANGED searchVars
    /\ UNCHANGED <<timestampIncrement, tokens, configIn, config, configErr, args>>

\* PublicationSearch panicked on a nil *results: the runtime ends the
\* process.
SearchPanicked ==
    /\ mainPc = "searching"
    /\ pc = "panic"
    /\ exitStatus' = PanicExit
    /\ mainPc' = "exited"
    /\ UNCHANGED searchVars
    /\ UNCHANGED <<timestampIncrement, tokens, configIn, config, configErr, authorIdx,
                   logged, searchErrs, args>>

NextMain ==
    \/ MainParseArgs
    \/ MainReadConfig
    \/ MainValidateConfig
    \/ NextAuthor
    \/ Call
    \/ CountRequest
    \/ FetchRequest
    \/ SearchReturned
    \/ SearchPanicked

SpecMain == InitMain /\ [][NextMain]_vars

TypeOK ==
    /\ timestampIncrement \in Int
    /\ c.Author \in {"", QueryAuthor} \cup FilterAuthors
    /\ pc \in {"start", "count", "fetch", "done", "panic", "filter", "filtered", "token", "idle",
              "config", "validated"}
    /\ year \in 1..Len(Years)
    /\ err \in {"nil", "validation", "urlparse", "transport", "http", "decode", "countfail", "mismatch"}
    /\ mainPc \in {"idle", "args", "read", "validate", "loop", "searching", "exited"}
    /\ args \in CommandLines
    /\ exitStatus \in {-1, 0, 1, PanicExit}
    /\ authorIdx \in 0..(MaxAuthors + 1)

(***************************************************************************)
(* What the requests sent so far say, read off the answers themselves.     *)
(***************************************************************************)
\* r is a count request answered 200 with a JSON object
CountAnswered(r) ==
    /\ r.endpt = "search/count"
    /\ r.resp.kind = "http"
    /\ r.resp.status = StatusOK
    /\ r.resp.body.json = "object"
\* totalHits of such an answer
ReportedTotal(r) == IF r.resp.body.hasTotalHits THEN r.resp.body.totalHits ELSE 0
\* r is a fetch request answered 200 with a JSON object
PageAnswered(r) ==
    /\ r.endpt = "search"
    /\ r.resp.kind = "http"
    /\ r.resp.status = StatusOK
    /\ r.resp.body.json = "object"
\* the raw resources of the answer to r
PageOf(r) == IF PageAnswered(r) /\ r.resp.body.hasResources THEN r.resp.body.resources ELSE <<>>

RECURSIVE SumLen(_)
SumLen(rs) == IF rs = <<>> THEN 0 ELSE Len(PageOf(Head(rs))) + SumLen(Tail(rs))
\* number of raw resources retrieved for bucket y
Retrieved(y) == SumLen(FetchesOf(y))
YearSet == { Years[i] : i \in DOMAIN Years }
\* the count request of bucket y reported success and total n
CountedAs(y, n) ==
    \E i \in DOMAIN requests :
        /\ requests[i].year = y
        /\ CountAnswered(requests[i])
        /\ requests[i].resp.body.success = "true"
        /\ ReportedTotal(requests[i]) = n

(***************************************************************************)
(* Claims.                                                                 *)
(***************************************************************************)
\* C1: a call on a CatalogInfo with an empty Author or an empty Media
\* returns the validation error in its first step, with no list, no
\* request sent and timestampIncrement untouched (no token made).
C1_MissingInfoNoRequest ==
    [][(pc = "start" /\ (c.Author = "" \/ c.Media = ""))
        => /\ pc' = "done"
           /\ err' = "validation"
           /\ retPubs' = Nil
           /\ requests' = <<>>
           /\ timestampIncrement' = timestampIncrement]_vars
\* a second call, after one that sent requests, refused for its empty Media
C1_Witness ==
    /\ pc = "done"
    /\ err = "validation"
    /\ c.Author # "" /\ c.Media = ""
    /\ requests = <<>>
    /\ timestampIncrement > 1

\* C2: a search sends at most one count request per year bucket, so at
\* most two, and no fetch request for a bucket whose count request was
\* answered with totalHits = 0.
C2_OneCountNoFetchOnZero ==
    /\ \A y \in YearSet : Len(CountsOf(y)) <= 1
    /\ Len(SelectSeq(requests, LAMBDA r : r.endpt = "search/count")) <= 2
    /\ \A i \in DOMAIN requests :
          (CountAnswered(requests[i]) /\ ReportedTotal(requests[i]) = 0)
              => FetchesOf(requests[i].year) = <<>>
\* a finished search whose first bucket counted 0 and whose second fetched
C2_Witness ==
    /\ pc = "done"
    /\ err = "nil"
    /\ CountedAs("unknown", 0)
    /\ FetchesOf("unknown") = <<>>
    /\ Len(CountsOf(yearFilter)) = 1
    /\ FetchesOf(yearFilter) # <<>>

\* C3: a count answer whose success flag is false ends the search with an
\* error: the count request is the last request of the search (no fetch
\* for the bucket, nothing for a later bucket) and no list is returned.
C3_CountFailureAborts ==
    \A i \in DOMAIN requests :
        (CountAnswered(requests[i]) /\ requests[i].resp.body.success = "false")
            => /\ i = Len(requests)
               /\ pc = "done"
               /\ err = "countfail"
               /\ retPubs = Nil
\* the first bucket's count fails: the second bucket is never asked
C3_Witness ==
    /\ pc = "done"
    /\ err = "countfail"
    /\ Len(requests) = 1
    /\ requests[1].year = "unknown"
    /\ requests[1].resp.body.success = "false"
    /\ requests[1].resp.body.totalHits = 2

\* C4: when the raw resources retrieved for a bucket exceed the total its
\* count request reported, the search returns the count-mismatch error and
\* no list, whatever was accumulated before.
C4_MismatchDiscards ==
    \A y \in YearSet : \A n \in -1..(MaxTotal + 1) :
        (CountedAs(y, n) /\ Retrieved(y) > n)
            => /\ pc = "done"
               /\ err = "mismatch"
               /\ retPubs = Nil
\* the second bucket overshoots after the first one contributed results
C4_Witness ==
    /\ pc = "done"
    /\ err = "mismatch"
    /\ year = 2
    /\ Retrieved("unknown") > 0
    /\ CountedAs(yearFilter, 1) /\ Retrieved(yearFilter) = 2
    /\ Len(filteredPubs) >= 2
    /\ retPubs = Nil

\* C5: when a search returns without error, every bucket whose count was
\* not zero retrieved exactly the total its count request reported.
C5_RetrievedEqualsExpected ==
    (pc = "done" /\ err = "nil")
        => \A y \in YearSet : \A n \in -1..(MaxTotal + 1) :
               (CountedAs(y, n) /\ n # 0) => Retrieved(y) = n
\* a successful search that needed two pages in a bucket
C5_Witness ==
    /\ pc = "done"
    /\ err = "nil"
    /\ CountedAs("unknown", 2) /\ Len(FetchesOf("unknown")) >= 2
    /\ CountedAs(yearFilter, 1) /\ Retrieved(yearFilter) = 1

(***************************************************************************)
(* The list a search is to return, written from the answers: of each page  *)
(* the resources of the query's author, in page order, as publications.    *)
(***************************************************************************)
FieldOrUnknown(x) == IF x.t = "string" THEN x.v ELSE "Unknown"
Normalized(r) ==
    [Media |-> FieldOrUnknown(r.format), Publication |-> FieldOrUnknown(r.shortTitle)]
MapNormalized(rs) == [i \in 1..Len(rs) |-> Normalized(rs[i])]
KeptOfPage(ci, page) ==
    MapNormalized(SelectSeq(page, LAMBDA r : r.shortAuthor = Str(ci.Author)))
RECURSIVE ConcatPages(_, _)
ConcatPages(ci, rs) ==
    IF rs = <<>> THEN <<>>
    ELSE KeptOfPage(ci, PageOf(Head(rs))) \o ConcatPages(ci, Tail(rs))

\* C6: the list of a successful search is the kept resources of the
\* unknown-year pages followed by those of the current-year pages, pages
\* in arrival order and resources in page order.
C6_ResultIsConcatenation ==
    (pc = "done" /\ err = "nil")
        => retPubs = ConcatPages(c, FetchesOf("unknown")) \o ConcatPages(c, FetchesOf(yearFilter))
\* two pages in the first bucket, one in the second, one resource dropped
\* and two different publications in the list
C6_Witness ==
    /\ pc = "done"
    /\ err = "nil"
    /\ Len(FetchesOf("unknown")) = 2
    /\ Retrieved("unknown") = 2
    /\ Retrieved(yearFilter) = 2
    /\ Len(retPubs) = 3
    /\ retPubs[1] # retPubs[2]

\* C7: a search that returns an error returns no list with it.
C7_NoListWithError ==
    (pc = "done" /\ err # "nil") => retPubs = Nil
\* a fetch of the second bucket fails after publications were accumulated
C7_Witness ==
    /\ pc = "done"
    /\ err = "transport"
    /\ year = 2
    /\ requests[Len(requests)].endpt = "search"
    /\ Len(filteredPubs) >= 2
    /\ retPubs = Nil

\* r was answered with a failure: no connection, a status other than 200,
\* a body that is not JSON of the shape, or a count without success
Failed(r) ==
    \/ r.resp.kind = "neterr"
    \/ r.resp.status # StatusOK
    \/ r.resp.body.json = "invalid"
    \/ (r.endpt = "search/count" /\ r.resp.body.json = "object" /\ r.resp.body.success # "true")

\* C8: no retry: a failed request is the last request of its search, and
\* the search has returned an error.
C8_FirstFailureIsTerminal ==
    \A i \in DOMAIN requests :
        Failed(requests[i]) => (i = Len(requests) /\ pc = "done" /\ err # "nil")
\* the second page of the second bucket comes back with a bad status
C8_Witness ==
    /\ pc = "done"
    /\ err = "http"
    /\ Len(requests) = 5
    /\ requests[4].endpt = "search" /\ ~Failed(requests[4])
    /\ requests[5].endpt = "search" /\ requests[5].year = yearFilter

\* C9: resources without a string shortAuthor leave no trace in the list:
\* the call gives what it gives on the page without them, and adds at most
\* one publication per resource that has an author.
C9_NoAuthorDropped ==
    pc = "filtered"
        => LET withAuthor == SelectSeq(pubs, LAMBDA r : r.shortAuthor.t = "string")
           IN  /\ filteredPubs = applyLocalFilters(c, withAuthor, filteredBefore)
               /\ Len(filteredPubs) - Len(filteredBefore) <= Len(withAuthor)
\* a page of a resource with format and title but no author, and a kept one
C9_Witness ==
    /\ pc = "filtered"
    /\ Len(pubs) = 2
    /\ pubs[1] = resourceInfo(Absent, Str("Book"), Str("X"))
    /\ pubs[2].shortAuthor = Str(c.Author)
    /\ Len(filteredPubs) = Len(filteredBefore) + 1

\* C10: the call appends, after what the list held, one publication per
\* resource of the query's author, in order, with the resource's format
\* and shortTitle, "Unknown" standing for one that is missing.
C10_DefaultsToUnknown ==
    pc = "filtered"
        => LET mine == SelectSeq(pubs, LAMBDA r : r.shortAuthor = Str(c.Author))
               n == Len(filteredBefore)
           IN  /\ Len(filteredPubs) = n + Len(mine)
               /\ SubSeq(filteredPubs, 1, n) = filteredBefore
               /\ \A i \in DOMAIN mine :
                     /\ filteredPubs[n + i].Media =
                            IF mine[i].format.t = "string" THEN mine[i].format.v ELSE "Unknown"
                     /\ filteredPubs[n + i].Publication =
                            IF mine[i].shortTitle.t = "string" THEN mine[i].shortTitle.v ELSE "Unknown"
\* one resource of the author without format, one without title
C10_Witness ==
    /\ pc = "filtered"
    /\ pubs = <<resourceInfo(Str(c.Author), Absent, Str("X")),
                resourceInfo(Str(c.Author), Str("Book"), Absent)>>
    /\ filteredBefore = Nil
    /\ filteredPubs = <<PublicationInfo("Unknown", "X"), PublicationInfo("Book", "Unknown")>>

\* C11: the call adds one publication for each resource whose shortAuthor
\* is a string equal to the query's Author, letter for letter, and none
\* for any other resource: an author in another case, a part of the
\* author's name, a number or no author add nothing.
C11_ExactAuthorMatch ==
    pc = "filtered"
        => LET equal == { i \in DOMAIN pubs :
                            pubs[i].shortAuthor.t = "string" /\ pubs[i].shortAuthor.v = c.Author }
           IN  /\ Len(filteredPubs) = Len(filteredBefore) + Cardinality(equal)
               /\ (equal = {} => filteredPubs = filteredBefore)
\* the query's author next to the same name in lower case
C11_Witness ==
    /\ pc = "filtered"
    /\ c.Author = QueryAuthor
    /\ Len(pubs) = 2
    /\ pubs[1].shortAuthor = Str("grafton, sue")
    /\ pubs[2].shortAuthor = Str(QueryAuthor)
    /\ Len(filteredPubs) = Len(filteredBefore) + 1

\* C12: any two tokens made by makeTimestamp in the process differ.
C12_TokensDistinct ==
    \A i, j \in DOMAIN tokens : i # j => tokens[i].token # tokens[j].token

\* C20: each token is greater than every token made before it.
C20_TokensIncrease ==
    \A i, j \in DOMAIN tokens : i < j => tokens[i].token < tokens[j].token

\* C13: a call on a CatalogInfo with an empty URL returns the validation
\* error in its first step, with no request sent and no token made.
C13_EmptyURLRejected ==
    [][(pc = "start" /\ c.URL = "")
        => /\ pc' = "done"
           /\ err' = "validation"
           /\ requests' = <<>>
           /\ timestampIncrement' = timestampIncrement]_vars

\* strings.HasSuffix(u, "/") on the URLs of the model
EndsWithSlash(u) == u = GoodURL

\* C15: the URL of a config that ValidateConfig accepted ends with "/".
C15_TrailingSlash ==
    (pc = "validated" /\ configErr = "nil") => EndsWithSlash(config.URL)

\* The media types as the README lists them.
CanonicalNames ==
    {"Book", "Electronic Resource", "eBook", "eAudioBook", "Book on CD",
     "Large Print", "Music CD", "DVD", "Blu-Ray"}
\* m is the name of a media type in some letter case
IsMediaName(md) == \E n \in CanonicalNames : ToLower(md) = ToLower(n)
\* out is what the media type md of a config file is to become
ConvertedFrom(md, out) ==
    /\ md = "" => out = ""
    /\ md # "" => (out \in CanonicalNames /\ ToLower(out) = ToLower(md))
    /\ md \in CanonicalNames => out = md
\* the YAML document is fine but for its media types
FineButMedia(in) ==
    /\ in.kind = "yaml"
    /\ ~in.authorsNull
    /\ uriFormat(in.URL)
    /\ \A i \in DOMAIN in.Authors :
          in.Authors[i].Firstname # "" /\ in.Authors[i].Lastname # ""

\* C16: a config whose media types are all unspecified or names of the
\* table in any letter case is accepted, and each media type comes back as
\* the table spells it: the config's and every author's, an unspecified
\* one still empty and one already so spelt unchanged.
C16_MediaTypesConverted ==
    (/\ pc = "validated"
     /\ FineButMedia(configIn)
     /\ configIn.Media = "" \/ IsMediaName(configIn.Media)
     /\ \A i \in DOMAIN configIn.Authors :
           configIn.Authors[i].Media = "" \/ IsMediaName(configIn.Authors[i].Media))
        => /\ configErr = "nil"
           /\ ConvertedFrom(configIn.Media, config.Media)
           /\ Len(config.Authors) = Len(configIn.Authors)
           /\ \A i \in DOMAIN configIn.Authors :
                 /\ ConvertedFrom(configIn.Authors[i].Media, config.Authors[i].Media)
                 /\ config.Authors[i].Firstname = configIn.Authors[i].Firstname
                 /\ config.Authors[i].Lastname = configIn.Authors[i].Lastname
\* lower case for the config, upper case for one author, none for another
C16_Witness ==
    /\ pc = "validated"
    /\ configErr = "nil"
    /\ configIn.Media = "book on cd" /\ config.Media = "Book on CD"
    /\ Len(config.Authors) = 2
    /\ configIn.Authors[1].Media = "EBOOK" /\ config.Authors[1].Media = "eBook"
    /\ configIn.Authors[2].Media = "" /\ config.Authors[2].Media = ""

\* C17: a config with a media type, its own or an author's, that is not
\* empty and not a name of the table is refused and comes back with its
\* media types as written; media types left out are no reason to refuse.
C17_BadMediaRefused ==
    /\ (/\ pc = "validated"
        /\ configIn.kind = "yaml"
        /\ \/ (configIn.Media # "" /\ ~IsMediaName(configIn.Media))
           \/ \E i \in DOMAIN configIn.Authors :
                 configIn.Authors[i].Media # "" /\ ~IsMediaName(configIn.Authors[i].Media))
           => /\ configErr # "nil"
              /\ config.Media = configIn.Media
              /\ \A i \in DOMAIN configIn.Authors :
                    config.Authors[i].Media = configIn.Authors[i].Media
    /\ (/\ pc = "validated"
        /\ FineButMedia(configIn)
        /\ configIn.Media = ""
        /\ \A i \in DOMAIN configIn.Authors : configIn.Authors[i].Media = "")
           => configErr = "nil"
\* the config's media type is fine, the second author's is not
C17_Witness ==
    /\ pc = "validated"
    /\ configErr = "schema"
    /\ uriFormat(configIn.URL)
    /\ configIn.Media = "book" /\ config.Media = "book"
    /\ Len(configIn.Authors) = 2
    /\ configIn.Authors[1].Media = "eBook"
    /\ configIn.Authors[2].Media = "nonsense"

\* C14: the Media of the CatalogInfo an author is searched with is the
\* author's own media type when the config gives one, else the config's
\* media type when it gives one, else "Book"; it is never empty.
C14_MediaChoice ==
    mainPc = "searching"
        => /\ c.Media = (IF config.Authors[authorIdx].Media # ""
                         THEN config.Authors[authorIdx].Media
                         ELSE IF config.Media # "" THEN config.Media
                         ELSE "Book")
           /\ c.Media # ""

\* a search returned an error: it has been logged and the process has
\* exited with a status that is not 0
SearchErrorsExit ==
    \A i \in DOMAIN searchErrs :
        searchErrs[i] # "nil"
            => /\ mainPc = "exited"
               /\ exitStatus \notin {-1, 0}
               /\ logged = <<searchErrs[i]>>
\* the process ended without a config read and validated: no search was
\* called and no request made
NoSearchWithoutConfig ==
    (mainPc = "exited" /\ (configIn = NoInput \/ configErr # "nil"))
        => /\ searchErrs = <<>>
           /\ requests = <<>>
           /\ timestampIncrement = 1
           /\ pc = "idle"
\* a config was read and validated and every author's search returned
\* without error
AllSearchesDone ==
    /\ configIn.kind = "yaml"
    /\ configErr = "nil"
    /\ Len(searchErrs) = Len(config.Authors)
    /\ \A i \in DOMAIN searchErrs : searchErrs[i] = "nil"

\* the usage was asked for: -h is among the flags
HelpAsked == \E i \in DOMAIN args.flags : args.flags[i] = "help"

\* C18: the process exits with 0 only after a config was read and
\* validated and every author's search returned without error (an exit
\* with 0 after -h, where nothing is read or searched, is not held against
\* the claim); a search that returned an error is followed by that error
\* logged and a nonzero exit status; and after a failed read or validation
\* no search was called and no request made.
C18_ExitStatus ==
    /\ exitStatus = 0
          => \/ AllSearchesDone
             \/ (HelpAsked /\ configIn = NoInput /\ searchErrs = <<>>)
    /\ SearchErrorsExit
    /\ NoSearchWithoutConfig

\* C19: every call of PublicationSearch comes to an end, with a return or
\* a panic, whatever the answers to its requests are.
C19_SearchTerminates == <>(pc \in {"done", "panic"})

\* C21: every request of a search carries startIndex 0, hitsPerPage 30,
\* the query's author as searchTerm and two facet filters, Year then
\* Format, the Year filter being the bucket's; and the requests of one
\* bucket, count and fetches, all carry the same payload.
C21_FixedPayload ==
    /\ \A i \in DOMAIN requests :
          LET p == requests[i].payload
          IN  /\ p.StartIndex = 0
              /\ p.HitsPerPage = 30
              /\ p.SearchTerm = c.Author
              /\ Len(p.FacetFilters) = 2
              /\ p.FacetFilters[1].facetName = "Year"
              /\ p.FacetFilters[1].facetValue = requests[i].year
              /\ p.FacetFilters[2].facetName = "Format"
              /\ p.FacetFilters[2].facetValue = c.Media
    /\ \A i, j \in DOMAIN requests :
          requests[i].year = requests[j].year
              => requests[i].payload = requests[j].payload
\* a bucket with its count and two fetches, the second after a page of
\* one resource
C21_Witness ==
    /\ Len(requests) >= 3
    /\ requests[1].endpt = "search/count"
    /\ requests[2].endpt = "search" /\ Len(PageOf(requests[2])) = 1
    /\ requests[3].endpt = "search" /\ requests[3].year = requests[1].year
    /\ requests[3].payload = requests[1].payload

\* r was answered 200 with a body that is not a JSON object: not JSON at
\* all, or the JSON value null
NotAnObject(r) ==
    /\ r.resp.kind = "http"
    /\ r.resp.status = StatusOK
    /\ r.resp.body.json # "object"

\* C22: a request answered 200 with a body that is not a JSON object, the
\* value null included, is the last of its search, and the search returns
\* the decode error; no search ends in a panic.
C22_BadBodyIsDecodeError ==
    /\ pc # "panic"
    /\ \A i \in DOMAIN requests :
          NotAnObject(requests[i])
              => (i = Len(requests) /\ pc = "done" /\ err = "decode" /\ retPubs = Nil)

\* the error is one of the request itself: no answer, or a refused status
TransportFailure(e) == e \in {"transport", "http"}
\* the search has returned a transport failure on request i
AbortedOn(i) ==
    /\ i = Len(requests)
    /\ pc = "done"
    /\ TransportFailure(err)
    /\ retPubs = Nil

\* C23 as the spec has it: a request fails with a transport error, and
\* the search with it, exactly when it got no answer or an answer whose
\* status is not one of 200..299.
C23_TransportIffNot2xx ==
    /\ \A i \in DOMAIN requests :
          AbortedOn(i) <=> (\/ requests[i].resp.kind = "neterr"
                            \/ requests[i].resp.status \notin 200..299)
    /\ (pc = "done" /\ TransportFailure(err)) => requests # <<>>

\* C23 amended: a request fails with a transport error, and the search
\* with it, exactly when it got no answer or an answer whose status is not
\* 200; an answer with status 200 never ends in a transport error.
C23_TransportIffNot200 ==
    /\ \A i \in DOMAIN requests :
          AbortedOn(i) <=> (\/ requests[i].resp.kind = "neterr"
                            \/ requests[i].resp.status # 200)
    /\ (pc = "done" /\ TransportFailure(err)) => requests # <<>>
\* a fetch answered 204 after a count and a page that were fine
C23_Witness ==
    /\ Len(requests) = 3
    /\ requests[2].resp.kind = "http" /\ requests[2].resp.status = 200
    /\ requests[3].endpt = "search"
    /\ requests[3].resp.kind = "http" /\ requests[3].resp.status = 204
    /\ AbortedOn(3)
    /\ err = "http"

\* place of bucket y in the fixed order of the buckets
BucketIndex(y) == CHOOSE k \in DOMAIN Years : Years[k] = y
\* the requests of bucket y, in the order they were sent
RequestsOf(y) == SelectSeq(requests, LAMBDA r : r.year = y)
\* bucket y is finished: its count succeeded and reported a total that is
\* zero or was retrieved exactly, and none of its requests failed
BucketFinished(y) ==
    /\ \E n \in 0..(MaxTotal + 1) : CountedAs(y, n) /\ Retrieved(y) = n
    /\ \A i \in DOMAIN requests : requests[i].year = y => ~Failed(requests[i])

\* C24: the requests of a search are sent bucket after bucket, unknown
\* year first; the first request of a bucket is its count, answered with
\* success before any fetch of the bucket; and a request of the current
\* year is sent only once the unknown-year bucket is finished.
C24_RequestsOrdered ==
    /\ \A i, j \in DOMAIN requests :
          i < j => BucketIndex(requests[i].year) <= BucketIndex(requests[j].year)
    /\ \A y \in YearSet :
          RequestsOf(y) # <<>>
              => /\ Head(RequestsOf(y)).endpt = "search/count"
                 /\ \A k \in 2..Len(RequestsOf(y)) :
                       /\ RequestsOf(y)[k].endpt = "search"
                       /\ ~Failed(Head(RequestsOf(y)))
    /\ RequestsOf(yearFilter) # <<>> => BucketFinished("unknown")
\* both buckets counted and fetched, the first in two pages
C24_Witness ==
    /\ Len(requests) = 5
    /\ requests[1].endpt = "search/count" /\ requests[1].year = "unknown"
    /\ requests[2].endpt = "search" /\ requests[3].endpt = "search"
    /\ requests[4].endpt = "search/count" /\ requests[4].year = yearFilter
    /\ requests[5].endpt = "search"

\* C25: while a bucket is fetched currentCount is the number of raw
\* resources of its pages, dropped ones included, and the publications
\* the bucket has added to the list are no more than that; the list a
\* successful search returns is no longer than the two totals together.
C25_CountsRawResources ==
    /\ pc = "fetch" => currentCount = Retrieved(Years[year])
    /\ (pc = "fetch" /\ year = 1) => Len(filteredPubs) <= currentCount
    /\ (pc = "fetch" /\ year = 2)
          => Len(filteredPubs) - Len(ConcatPages(c, FetchesOf("unknown"))) <= currentCount
    /\ Len(filteredPubs) <= Retrieved("unknown") + Retrieved(yearFilter)
    /\ (pc = "done" /\ err = "nil")
          => \E n1, n2 \in 0..(MaxTotal + 1) :
                /\ CountedAs("unknown", n1)
                /\ CountedAs(yearFilter, n2)
                /\ Len(retPubs) <= n1 + n2
\* a page of one resource that the filter dropped: counted, not kept
C25_Witness ==
    /\ pc = "fetch"
    /\ totalCount = 2
    /\ currentCount = 1
    /\ Len(FetchesOf(Years[year])) = 1
    /\ filteredPubs = Nil

\* C26: a step of a search leaves the query as it is and moves
\* timestampIncrement on by one for a request made, answered well or not,
\* and by nothing otherwise (a refused call makes no request);
\* timestampIncrement never goes down; and a new call starts with
\* timestampIncrement as the last call left it and with nothing else of
\* the last call: no count, no list, no error, and what it returns is
\* made of the answers to its own requests.
C26_OnlyCounterSurvives ==
    [][/\ timestampIncrement' >= timestampIncrement
       /\ pc \in {"start", "count", "fetch"}
             => /\ c' = c
                /\ Len(requests') - Len(requests) \in {0, 1}
                /\ timestampIncrement' = timestampIncrement + (Len(requests') - Len(requests))
       /\ (pc = "start" /\ err' = "validation")
             => (timestampIncrement' = timestampIncrement /\ requests' = requests)
       /\ (pc = "done" /\ pc' = "start")
             => /\ timestampIncrement' = timestampIncrement
                /\ totalCount' = 0
                /\ currentCount' = 0
                /\ filteredPubs' = Nil
                /\ retPubs' = Nil
                /\ err' = "nil"
       /\ (nSearches' > 1 /\ pc' = "done" /\ err' = "nil")
             => retPubs' = ConcatPages(c', requests')]_vars
\* a second call that has made two requests, the second one failed, after
\* a first call that made requests too
C26_Witness ==
    /\ nSearches = 2
    /\ pc = "done"
    /\ Len(requests) = 2
    /\ Failed(requests[2])
    /\ timestampIncrement > 1 + Len(requests)

====
